---- MODULE Spec2Model ----
(***************************************************************************)
(* Model of the druid widget trait defaults (src/widget/mod.rs) and of the *)
(* X11 windowing shim (druid-shell/src/x11).                               *)
(*                                                                         *)
(* Four specifications share the module, one per subsystem:                *)
(*   WidgetSpec      direct calls of the default Widget::layout            *)
(*   LayoutSpec      the request/response layout engine over a widget tree *)
(*   MouseSpec       mouse event bubbling over a widget tree               *)
(*   X11Spec         the X11 shim: session, windows, run loop, stubs       *)
(* Option<T> is modelled as a set with at most one element.                *)
(***************************************************************************)
EXTENDS Integers, Sequences, FiniteSets, TLC

\* ---------------------------------------------------------------- bounds
MaxNodes == 3

MaxResolve == 2

MaxWindows == 2

MaxQueue == 2

MaxCalls == 2

MaxClose == 2

\* ---------------------------------------------------------------- state
VARIABLES
    \* widget tree (arena): number of nodes, ordered child lists, widget kinds
    nnodes, children, kind, leafSize,
    \* layout engine
    stack, resolved, geom, pos, lphase, lastCall,
    \* mouse dispatcher
    mouseKind, cur, invoked, mphase,
    \* X11 shim
    xlibAvailable, displayAvailable, xlib, session, openCalls, connOpen,
    alive, windows, builds, lastBuild, handles, running, xqueue,
    closeTaken, handlerClose, idleRan, lastOp, calls, menu

treeVars == <<nnodes, children, kind, leafSize>>

layoutVars == <<stack, resolved, geom, pos, lphase, lastCall>>

mouseVars == <<mouseKind, cur, invoked, mphase>>

x11State == <<xlibAvailable, displayAvailable, xlib, session, openCalls,
              connOpen, alive, windows, builds, lastBuild, handles, running,
              xqueue, closeTaken, handlerClose, idleRan, menu>>

x11Vars == <<x11State, lastOp, calls>>

vars == <<treeVars, layoutVars, mouseVars, x11Vars>>

\* ---------------------------------------------------------------- values
None == {}

Some(v) == {v}

ORIGIN == <<0, 0>>

Sizes == { <<0, 0>>, <<100, 50>>, <<400, 300>> }

BoxConstraintsSet ==
    { [min |-> <<0, 0>>, max |-> <<400, 300>>],
      [min |-> <<0, 0>>, max |-> <<50, 50>>],
      [min |-> <<100, 50>>, max |-> <<100, 50>>] }

Ids == 0 .. (MaxNodes - 1)

Range(s) == { s[i] : i \in 1 .. Len(s) }

\* ---------------------------------------------------------------- widget
Panic == [tag |-> "Panic", size |-> None, child |-> None, bc |-> None,
          positioned |-> {}]

\* Mutant: the size handed back is clamped to the constraints instead of
\* being forwarded as it is.
Layout_Clamped(bc, ch, size) ==
    IF size # None
    THEN IF Len(ch) = 0
         THEN Panic
         ELSE [tag |-> "Size",
               size |-> { << IF s[1] > bc.max[1] THEN bc.max[1] ELSE s[1],
                             IF s[2] > bc.max[2] THEN bc.max[2] ELSE s[2] >> : s \in size },
               child |-> None, bc |-> None,
               positioned |-> { <<ch[1], ORIGIN>> }]
    ELSE IF Len(ch) = 0
         THEN Panic
         ELSE [tag |-> "RequestChild", size |-> None, child |-> Some(ch[1]),
               bc |-> Some(bc), positioned |-> {}]

\* Mutant: the child is positioned already when it is requested.
Layout_EarlyPosition(bc, ch, size) ==
    IF Len(ch) = 0
    THEN Panic
    ELSE IF size # None
         THEN [tag |-> "Size", size |-> size, child |-> None, bc |-> None,
               positioned |-> { <<ch[1], ORIGIN>> }]
         ELSE [tag |-> "RequestChild", size |-> None, child |-> Some(ch[1]),
               bc |-> Some(bc), positioned |-> { <<ch[1], ORIGIN>> }]

\* Mutant: the child's size is ignored and the child is requested again.
Layout_RequestAgain(bc, ch, size) ==
    IF Len(ch) = 0
    THEN Panic
    ELSE [tag |-> "RequestChild", size |-> None, child |-> Some(ch[1]),
          bc |-> Some(bc), positioned |-> {}]

\* Mutant: the child list is not indexed when a size is known and the list
\* is empty; the size is returned.
Layout_NoIndex(bc, ch, size) ==
    IF size # None
    THEN [tag |-> "Size", size |-> size, child |-> None, bc |-> None,
          positioned |-> IF Len(ch) = 0 THEN {} ELSE { <<ch[1], ORIGIN>> }]
    ELSE IF Len(ch) = 0
         THEN Panic
         ELSE [tag |-> "RequestChild", size |-> None, child |-> Some(ch[1]),
               bc |-> Some(bc), positioned |-> {}]

\* Widget::layout, the default implementation.  `positioned` is the set of
\* ctx.position_child(child, point) calls the invocation makes.
\* children[0] on an empty slice panics (Rust bounds check).
Layout(bc, ch, size) ==
    IF size # None
    THEN IF Len(ch) = 0
         THEN Panic
         ELSE [tag |-> "Size", size |-> size, child |-> None, bc |-> None,
               positioned |-> { <<ch[1], ORIGIN>> }]
    ELSE IF Len(ch) = 0
         THEN Panic
         ELSE [tag |-> "RequestChild", size |-> None, child |-> Some(ch[1]),
               bc |-> Some(bc), positioned |-> {}]

Clamp(v, lo, hi) == IF v < lo THEN lo ELSE IF v > hi THEN hi ELSE v

\* BoxConstraints::constrain
Constrain(bc, s) ==
    << Clamp(s[1], bc.min[1], bc.max[1]), Clamp(s[2], bc.min[2], bc.max[2]) >>

\* A widget that overrides layout and has no children (a label, a button):
\* it answers with its own size under the constraints.
LeafLayout(bc, s) ==
    [tag |-> "Size", size |-> Some(Constrain(bc, s)), child |-> None,
     bc |-> None, positioned |-> {}]

\* Dynamic dispatch on the widget of node n.
WidgetLayout(n, bc, size) ==
    IF kind[n] = "default"
    THEN Layout(bc, children[n], size)
    ELSE LeafLayout(bc, leafSize[n])

\* ---------------------------------------------------------------- trees
\* Parent maps of the rooted trees over nodes 0 .. n-1 (0 is the root).
Parents(n) == { p \in [1 .. (n - 1) -> 0 .. (n - 1)] : \A i \in 1 .. (n - 1) : p[i] < i }

RECURSIVE SortedSeq(_)
SortedSeq(S) ==
    IF S = {} THEN <<>>
    ELSE LET m == CHOOSE x \in S : \A y \in S : x <= y
         IN <<m>> \o SortedSeq(S \ {m})

ChildrenOf(n, p) ==
    [ k \in 0 .. (n - 1) |-> SortedSeq({ i \in 1 .. (n - 1) : p[i] = k }) ]

ParentOf(c) ==
    { k \in 0 .. (nnodes - 1) : c \in Range(children[k]) }

NoCall == [node |-> None, bc |-> None, ch |-> <<>>, size |-> None, out |-> Panic,
           called |-> FALSE]

TreeInit ==
    /\ nnodes \in 1 .. MaxNodes
    /\ children \in { ChildrenOf(nnodes, p) : p \in Parents(nnodes) }
    /\ kind \in [0 .. (nnodes - 1) -> {"default", "leaf"}]
    \* widgets that override layout as leaves have no children
    /\ \A n \in 0 .. (nnodes - 1) : kind[n] = "leaf" => children[n] = <<>>
    /\ leafSize \in [0 .. (nnodes - 1) -> Sizes]

LayoutIdle ==
    /\ stack = <<>>
    /\ resolved = [n \in 0 .. (nnodes - 1) |-> 0]
    /\ geom = [n \in 0 .. (nnodes - 1) |-> None]
    /\ pos = [n \in 0 .. (nnodes - 1) |-> None]
    /\ lphase = "idle"
    /\ lastCall = NoCall


\* ---------------------------------------------------------------- direct calls
ChildLists == { <<>> } \cup { <<a>> : a \in Ids } \cup { <<a, b>> : a \in Ids, b \in Ids }

OptSizes == { None } \cup { Some(s) : s \in Sizes }

\* One invocation of the default Widget::layout with arbitrary arguments.
CallLayout ==
    \E bc \in BoxConstraintsSet, ch \in ChildLists, size \in OptSizes :
        /\ lastCall' = [node |-> None, bc |-> Some(bc), ch |-> ch, size |-> size,
                        out |-> Layout(bc, ch, size), called |-> TRUE]
        /\ UNCHANGED <<treeVars, stack, resolved, geom, pos, lphase, mouseVars, x11Vars>>

\* ---------------------------------------------------------------- layout engine
Frame(n, bc, size) == [node |-> n, bc |-> bc, size |-> size]

\* The engine begins a pass at the root with the window's constraints.
LayoutStart ==
    \E bc \in BoxConstraintsSet :
        /\ lphase = "idle"
        /\ stack' = << Frame(0, bc, None) >>
        /\ lphase' = "running"
        /\ UNCHANGED <<treeVars, resolved, geom, pos, lastCall, mouseVars, x11Vars>>

\* One turn of the request/response loop: call layout on the node on top of
\* the stack and act on its LayoutResult.
EngineStep ==
    /\ lphase = "running"
    /\ stack # <<>>
    /\ LET top  == stack[Len(stack)]
           n    == top.node
           out  == WidgetLayout(n, top.bc, top.size)
           rest == SubSeq(stack, 1, Len(stack) - 1)
       IN
       /\ lastCall' = [node |-> Some(n), bc |-> Some(top.bc), ch |-> children[n],
                       size |-> top.size, out |-> out, called |-> TRUE]
       /\ pos' = [c \in DOMAIN pos |->
                    IF \E pc \in out.positioned : pc[1] = c
                    THEN { pc[2] : pc \in { q \in out.positioned : q[1] = c } }
                    ELSE pos[c]]
       /\ CASE out.tag = "Panic" ->
                 /\ lphase' = "panic"
                 /\ UNCHANGED <<stack, resolved, geom>>
            [] out.tag = "RequestChild" ->
                 LET c == CHOOSE x \in out.child : TRUE
                     cbc == CHOOSE x \in out.bc : TRUE
                 IN IF c \notin Range(children[n])
                    THEN \* requesting a child outside the own child list is fatal
                         /\ lphase' = "panic"
                         /\ UNCHANGED <<stack, resolved, geom>>
                    ELSE /\ stack' = Append(stack, Frame(c, cbc, None))
                         /\ UNCHANGED <<lphase, resolved, geom>>
            [] out.tag = "Size" ->
                 /\ resolved[n] < MaxResolve
                 /\ resolved' = [resolved EXCEPT ![n] = @ + 1]
                 /\ geom' = [geom EXCEPT ![n] = out.size]
                 /\ IF rest = <<>>
                    THEN /\ stack' = <<>>
                         /\ lphase' = "done"
                    ELSE /\ stack' = [rest EXCEPT ![Len(rest)].size = out.size]
                         /\ UNCHANGED lphase
    /\ UNCHANGED <<treeVars, mouseVars, x11Vars>>

\* ---------------------------------------------------------------- mouse
MouseEvents == { [count |-> 0], [count |-> 1] }

\* Mutant: the default reports the event as handled.
Mouse_Handled(event) == TRUE

\* Widget::mouse, the default implementation: not handled.
Mouse(event) == FALSE

\* Dynamic dispatch: a widget either keeps the default or overrides mouse
\* with a handler that returns true.
WidgetMouse(n, event) ==
    IF mouseKind[n] = "default" THEN Mouse(event) ELSE TRUE

MouseIdle ==
    /\ cur = None
    /\ invoked = <<>>
    /\ mphase = "idle"

\* Hit testing resolved the deepest node under the pointer; the event goes
\* to it first.
MouseStart ==
    \E target \in 0 .. (nnodes - 1), event \in MouseEvents :
        /\ mphase = "idle"
        /\ cur' = Some([node |-> target, event |-> event])
        /\ mphase' = "dispatching"
        /\ UNCHANGED <<treeVars, layoutVars, mouseKind, invoked, x11Vars>>

\* The current node's mouse is invoked; handled stops propagation, otherwise
\* the event bubbles to the parent.
MouseStep ==
    /\ mphase = "dispatching"
    /\ LET c == CHOOSE x \in cur : TRUE
           handled == WidgetMouse(c.node, c.event)
       IN /\ invoked' = Append(invoked, [node |-> c.node, handled |-> handled])
          /\ IF handled
             THEN /\ mphase' = "handled"
                  /\ cur' = None
             ELSE IF ParentOf(c.node) = {}
                  THEN /\ mphase' = "unhandled"
                       /\ cur' = None
                  ELSE /\ cur' = { [node |-> k, event |-> c.event] : k \in ParentOf(c.node) }
                       /\ UNCHANGED mphase
    /\ UNCHANGED <<treeVars, layoutVars, mouseKind, x11Vars>>

\* ---------------------------------------------------------------- X11 shim
NoOp == [op |-> "none", outcome |-> "none", late |-> FALSE]

X11Init ==
    /\ xlibAvailable \in BOOLEAN
    /\ displayAvailable \in BOOLEAN
    /\ xlib = "unloaded"
    /\ session = "uninit"
    /\ openCalls = 0
    /\ connOpen = FALSE
    /\ alive = TRUE
    /\ windows = <<>>
    /\ builds = 0
    /\ lastBuild = "none"
    /\ handles = {}
    /\ running = FALSE
    /\ xqueue = <<>>
    /\ closeTaken = 0
    /\ handlerClose = 0
    /\ idleRan = {}
    /\ lastOp = NoOp
    /\ calls = 0
    /\ menu = <<>>

\* The state of the shim when only the widget runtime is exercised.
X11Idle ==
    /\ X11Init
    /\ xlibAvailable
    /\ displayAvailable

\* lazy_static XLIB: Xlib::open().expect(..) on first dereference.
XLIB == IF xlibAvailable THEN "loaded" ELSE "poisoned"

\* XSession::new: XOpenDisplay(null); a failure gives a null Display pointer,
\* which is stored unchecked.
XSessionNew ==
    IF displayAvailable
    THEN [display |-> "open", opens |-> openCalls + 1, open |-> TRUE]
    ELSE [display |-> "null", opens |-> openCalls, open |-> connOpen]

\* lazy_static XSESSION: initialised by XSession::new on first dereference,
\* the same value on every later one.
XSESSION ==
    IF session = "uninit"
    THEN XSessionNew
    ELSE [display |-> session, opens |-> openCalls, open |-> connOpen]

NewWindow(conn, ok) == [conn |-> conn, valid |-> ok, wmDelete |-> ok, mapped |-> FALSE]

\* WindowBuilder::build.  The title, handler, menu and mouse-move option of
\* the builder are consumed and dropped.  The only return is Ok(..).
\* With a null display the Xlib calls dereference a null pointer: the process
\* crashes or goes on with garbage values.  XCreateWindow may fail in the
\* server (ok = FALSE); the window id is returned all the same.
Build ==
    /\ alive
    /\ Len(windows) < MaxWindows
    /\ xlib' = XLIB
    /\ IF ~xlibAvailable
       THEN /\ lastBuild' = "panic"
            /\ UNCHANGED <<session, openCalls, connOpen, alive, windows, builds,
                           handles, running>>
       ELSE LET xs == XSESSION IN
            /\ session' = xs.display
            /\ openCalls' = xs.opens
            /\ connOpen' = xs.open
            /\ IF xs.display = "null"
               THEN \/ /\ lastBuild' = "crash"
                       /\ alive' = FALSE
                       /\ running' = FALSE
                       /\ UNCHANGED <<windows, builds, handles>>
                    \/ /\ lastBuild' = "Ok"
                       /\ builds' = builds + 1
                       /\ windows' = Append(windows, NewWindow(0, FALSE))
                       /\ handles' = handles \cup { Len(windows) + 1 }
                       /\ UNCHANGED <<alive, running>>
               ELSE \E ok \in BOOLEAN :
                       /\ lastBuild' = "Ok"
                       /\ builds' = builds + 1
                       /\ windows' = Append(windows, NewWindow(xs.opens, ok))
                       /\ handles' = handles \cup { Len(windows) + 1 }
                       /\ UNCHANGED <<alive, running>>
    /\ UNCHANGED <<treeVars, layoutVars, mouseVars, xlibAvailable, displayAvailable,
                   xqueue, closeTaken, handlerClose, idleRan, lastOp, calls, menu>>

\* WindowHandle::show on a handle returned by build: XMapWindow.
Show(w) ==
    /\ alive
    /\ w \in handles
    /\ IF windows[w].conn = 0
       THEN /\ alive' = FALSE
            /\ running' = FALSE
            /\ UNCHANGED windows
       ELSE /\ windows' = [windows EXCEPT ![w].mapped = windows[w].valid]
            /\ UNCHANGED <<alive, running>>
    /\ UNCHANGED <<treeVars, layoutVars, mouseVars, xlibAvailable, displayAvailable,
                   xlib, session, openCalls, connOpen, builds, lastBuild, handles,
                   xqueue, closeTaken, handlerClose, idleRan, lastOp, calls, menu>>

\* A WindowHandle value goes out of scope; the type has no Drop, the native
\* window stays.
DropHandle(w) ==
    /\ alive
    /\ w \in handles
    /\ handles' = handles \ {w}
    /\ UNCHANGED <<treeVars, layoutVars, mouseVars, xlibAvailable, displayAvailable,
                   xlib, session, openCalls, connOpen, alive, windows, builds,
                   lastBuild, running, xqueue, closeTaken, handlerClose, idleRan,
                   lastOp, calls, menu>>

\* A WindowHandle the caller holds: one returned by build, or the Default one.
AnyHandle == handles \cup {0}

\* unimplemented!(): the call panics; nothing is touched.
Unimplemented(op) ==
    /\ alive
    /\ calls < MaxCalls
    /\ lastOp' = [op |-> op, outcome |-> "panic", late |-> FALSE]
    /\ calls' = calls + 1
    /\ UNCHANGED <<treeVars, layoutVars, mouseVars, x11State>>

\* An empty function body: the call returns; nothing is touched.
Placeholder(op) ==
    /\ alive
    /\ calls < MaxCalls
    /\ lastOp' = [op |-> op, outcome |-> "ok", late |-> FALSE]
    /\ calls' = calls + 1
    /\ UNCHANGED <<treeVars, layoutVars, mouseVars, x11State>>

\* Mutant: close returns normally without doing anything.
Close_Silent(w) == w \in AnyHandle /\ Placeholder("close")

\* WindowHandle::close
Close(w) == w \in AnyHandle /\ Unimplemented("close")

\* WindowHandle::invalidate
Invalidate(w) == w \in AnyHandle /\ Unimplemented("invalidate")

\* WindowHandle::get_idle_handle
GetIdleHandle(w) == w \in AnyHandle /\ Unimplemented("get_idle_handle")

\* WindowHandle::get_dpi
GetDpi(w) == w \in AnyHandle /\ Unimplemented("get_dpi")

\* WindowHandle::px_to_pixels
PxToPixels(w) == w \in AnyHandle /\ Unimplemented("px_to_pixels")

\* WindowHandle::px_to_pixels_xy
PxToPixelsXy(w) == w \in AnyHandle /\ Unimplemented("px_to_pixels_xy")

\* WindowHandle::pixels_to_px
PixelsToPx(w) == w \in AnyHandle /\ Unimplemented("pixels_to_px")

\* WindowHandle::pixels_to_px_xy
PixelsToPxXy(w) == w \in AnyHandle /\ Unimplemented("pixels_to_px_xy")

\* WindowHandle::file_dialog
FileDialog(w) == w \in AnyHandle /\ Unimplemented("file_dialog")

\* request_quit
RequestQuit == Unimplemented("request_quit")

\* Mutant: the callback is run without a look at the window.
AddIdle_Runs(w) ==
    /\ alive
    /\ calls < MaxCalls
    /\ w \in 1 .. Len(windows)
    /\ lastOp' = [op |-> "add_idle", outcome |-> "ok", late |-> (w \notin handles)]
    /\ calls' = calls + 1
    /\ idleRan' = idleRan \cup { IF w \in handles THEN "early" ELSE "late" }
    /\ UNCHANGED <<treeVars, layoutVars, mouseVars, xlibAvailable, displayAvailable,
                   xlib, session, openCalls, connOpen, alive, windows, builds,
                   lastBuild, handles, running, xqueue, closeTaken, handlerClose,
                   menu>>

\* IdleHandle::add_idle with a callback meant for window w.  IdleHandle is a
\* unit struct, so one can be had without get_idle_handle.  The call panics;
\* the callback is dropped without having run.  `late` records that the
\* WindowHandle of w had been dropped before the call.
AddIdle(w) ==
    /\ alive
    /\ calls < MaxCalls
    /\ w \in 1 .. Len(windows)
    /\ lastOp' = [op |-> "add_idle", outcome |-> "panic", late |-> (w \notin handles)]
    /\ calls' = calls + 1
    /\ UNCHANGED <<treeVars, layoutVars, mouseVars, x11State>>

\* Menu::add_dropdown
AddDropdown == Placeholder("add_dropdown")

\* Menu::add_item
AddItem == Placeholder("add_item")

\* Menu::add_separator
AddSeparator == Placeholder("add_separator")

\* RunLoop::run up to its first XNextEvent.  XNextEvent on a null display
\* dereferences a null pointer.
Run ==
    /\ alive
    /\ ~running
    /\ xlib' = XLIB
    /\ IF ~xlibAvailable
       THEN UNCHANGED <<session, openCalls, connOpen, alive, running>>
       ELSE LET xs == XSESSION IN
            /\ session' = xs.display
            /\ openCalls' = xs.opens
            /\ connOpen' = xs.open
            /\ IF xs.display = "null"
               THEN \/ alive' = FALSE /\ UNCHANGED running
                    \/ running' = TRUE /\ UNCHANGED alive
               ELSE running' = TRUE /\ UNCHANGED alive
    /\ UNCHANGED <<treeVars, layoutVars, mouseVars, xlibAvailable, displayAvailable,
                   windows, builds, lastBuild, handles, xqueue, closeTaken,
                   handlerClose, idleRan, lastOp, calls, menu>>

\* One turn of the loop in RunLoop::run: XNextEvent takes the next event off
\* the connection into `event`; the loop body does nothing with it.
RunLoopStep ==
    /\ alive
    /\ running
    /\ xqueue # <<>>
    /\ xqueue' = Tail(xqueue)
    /\ closeTaken' = closeTaken + 1
    /\ UNCHANGED <<treeVars, layoutVars, mouseVars, xlibAvailable, displayAvailable,
                   xlib, session, openCalls, connOpen, alive, windows, builds,
                   lastBuild, handles, running, handlerClose, idleRan, lastOp,
                   calls, menu>>

\* The window manager sends WM_DELETE_WINDOW (a ClientMessage) to a mapped
\* window that registered the protocol.  build selects no event mask, so
\* ClientMessage is the only event the connection receives.
CloseRequest(w) ==
    /\ alive
    /\ w \in 1 .. Len(windows)
    /\ windows[w].valid /\ windows[w].wmDelete /\ windows[w].mapped
    /\ Len(xqueue) < MaxQueue
    /\ closeTaken + Len(xqueue) < MaxClose
    /\ xqueue' = Append(xqueue, w)
    /\ UNCHANGED <<treeVars, layoutVars, mouseVars, xlibAvailable, displayAvailable,
                   xlib, session, openCalls, connOpen, alive, windows, builds,
                   lastBuild, handles, running, closeTaken, handlerClose, idleRan,
                   lastOp, calls, menu>>

\* The process ends.  XSESSION is a static: statics are not dropped, so
\* Drop for XSession (XCloseDisplay) does not run.
ProcessExit ==
    /\ alive
    /\ alive' = FALSE
    /\ running' = FALSE
    /\ UNCHANGED <<treeVars, layoutVars, mouseVars, xlibAvailable, displayAvailable,
                   xlib, session, openCalls, connOpen, windows, builds, lastBuild,
                   handles, xqueue, closeTaken, handlerClose, idleRan, lastOp,
                   calls, menu>>

\* ---------------------------------------------------------------- specifications
TreeFixed ==
    /\ nnodes = 1
    /\ children = [n \in {0} |-> <<>>]
    /\ kind = [n \in {0} |-> "default"]
    /\ leafSize = [n \in {0} |-> ORIGIN]

MouseFixed ==
    /\ mouseKind = [n \in 0 .. (nnodes - 1) |-> "default"]
    /\ MouseIdle

WidgetInit == TreeFixed /\ LayoutIdle /\ MouseFixed /\ X11Idle

WidgetNext == CallLayout

WidgetSpec == WidgetInit /\ [][WidgetNext]_vars

LayoutInit == TreeInit /\ LayoutIdle /\ MouseFixed /\ X11Idle

LayoutNext == LayoutStart \/ EngineStep

LayoutSpec == LayoutInit /\ [][LayoutNext]_vars

\* The engine runs the pass to its end: the loop keeps turning while a frame
\* is on the stack.
LayoutFairSpec == LayoutSpec /\ WF_vars(LayoutNext)

MouseInit ==
    /\ nnodes \in 1 .. MaxNodes
    /\ children \in { ChildrenOf(nnodes, p) : p \in Parents(nnodes) }
    /\ kind = [n \in 0 .. (nnodes - 1) |-> "default"]
    /\ leafSize = [n \in 0 .. (nnodes - 1) |-> ORIGIN]
    /\ mouseKind \in [0 .. (nnodes - 1) -> {"default", "handles"}]
    /\ MouseIdle
    /\ LayoutIdle
    /\ X11Idle

MouseNext == MouseStart \/ MouseStep

MouseSpec == MouseInit /\ [][MouseNext]_vars

X11SpecInit == TreeFixed /\ LayoutIdle /\ MouseFixed /\ X11Init

X11Next ==
    \/ Build
    \/ \E w \in 1 .. MaxWindows : Show(w)
    \/ \E w \in 1 .. MaxWindows : DropHandle(w)
    \/ \E w \in 0 .. MaxWindows : Close(w)
    \/ \E w \in 0 .. MaxWindows : Invalidate(w)
    \/ \E w \in 0 .. MaxWindows : GetIdleHandle(w)
    \/ \E w \in 0 .. MaxWindows : GetDpi(w)
    \/ \E w \in 0 .. MaxWindows : PxToPixels(w)
    \/ \E w \in 0 .. MaxWindows : PxToPixelsXy(w)
    \/ \E w \in 0 .. MaxWindows : PixelsToPx(w)
    \/ \E w \in 0 .. MaxWindows : PixelsToPxXy(w)
    \/ \E w \in 0 .. MaxWindows : FileDialog(w)
    \/ \E w \in 1 .. MaxWindows : AddIdle(w)
    \/ RequestQuit
    \/ AddDropdown
    \/ AddItem
    \/ AddSeparator
    \/ Run
    \/ RunLoopStep
    \/ \E w \in 1 .. MaxWindows : CloseRequest(w)
    \/ ProcessExit

X11Spec == X11SpecInit /\ [][X11Next]_vars

\* ---------------------------------------------------------------- claims
\* C1: the default Widget::layout on a node with children is a two-step
\* pass-through to the first child: without a known child size it returns
\* RequestChild(children[0], bc) with bc unchanged and positions nothing; with
\* the child's size s it positions children[0] at the origin and returns
\* Size(s) with s unchanged.
C1_DefaultLayoutPassThrough ==
    (lastCall.called /\ lastCall.ch # <<>>) =>
        /\ lastCall.size = None =>
              /\ lastCall.out.tag = "RequestChild"
              /\ lastCall.out.child = Some(lastCall.ch[1])
              /\ lastCall.out.bc = lastCall.bc
              /\ lastCall.out.positioned = {}
        /\ lastCall.size # None =>
              /\ lastCall.out.tag = "Size"
              /\ lastCall.out.size = lastCall.size
              /\ lastCall.out.positioned = { <<lastCall.ch[1], ORIGIN>> }

\* The example of the claim: constraints (0,0)..(400,300), one child that
\* reported (100,50).
C1_Witness ==
    /\ lastCall.called
    /\ lastCall.bc = Some([min |-> <<0, 0>>, max |-> <<400, 300>>])
    /\ lastCall.ch = <<1>>
    /\ lastCall.size = Some(<<100, 50>>)
    /\ lastCall.out.tag = "Size"
    /\ lastCall.out.size = Some(<<100, 50>>)
    /\ lastCall.out.positioned = { <<1, <<0, 0>>>> }

\* C2: in a layout pass position_child is made only in a layout call that was
\* given the child's size, never in the call that returns RequestChild; so a
\* child has a position only after it resolved to a Size.
C2_PositionAfterSize ==
    /\ lastCall.out.positioned # {} =>
          (lastCall.size # None /\ lastCall.out.tag # "RequestChild")
    /\ \A c \in DOMAIN pos : pos[c] # None => (resolved[c] >= 1 /\ geom[c] # None)

C2_Witness ==
    /\ lphase = "done"
    /\ nnodes > 1
    /\ pos[1] = Some(ORIGIN)
    /\ resolved[1] = 1

\* Every node that keeps the default layout has exactly one child (all other
\* nodes are childless widgets that answer with a Size).
WellFormedTree ==
    \A n \in 0 .. (nnodes - 1) : kind[n] = "default" => Len(children[n]) = 1

AllResolvedOnce == \A n \in 0 .. (nnodes - 1) : resolved[n] = 1

\* C3 as stated: for all widget trees the pass does not abort and ends with
\* every node resolved to a Size exactly once.
C3_EveryTreeResolves ==
    /\ lphase # "panic"
    /\ lphase = "done" => AllResolvedOnce

\* C3, amended: for widget trees whose default-layout nodes have exactly one
\* child each, the pass terminates, never aborts, resolves no node twice and
\* ends with every node resolved to a Size exactly once.
C3_SingleChildTreesResolve ==
    /\ [](WellFormedTree =>
            /\ lphase # "panic"
            /\ \A n \in 0 .. (nnodes - 1) : resolved[n] <= 1
            /\ lphase = "done" => AllResolvedOnce)
    /\ (WellFormedTree => <>(lphase = "done"))

C3_Witness ==
    /\ WellFormedTree
    /\ nnodes > 2
    /\ lphase = "done"
    /\ AllResolvedOnce

\* C4: when the display connection cannot be opened or the native window
\* cannot be created, build returns Err.
C4_BuildFailureIsErr ==
    /\ (lastBuild # "none" /\ ~displayAvailable) => lastBuild = "Err"
    /\ lastBuild = "Ok" => windows[Len(windows)].valid

\* C5: every close request the run loop takes off the connection has been
\* delivered to the application's handler.
C5_CloseRequestDelivered == closeTaken = handlerClose

\* C6: an idle callback scheduled after the window's handle was dropped never
\* runs.
C6_LateIdleNeverRuns == "late" \notin idleRan

C6_Witness ==
    /\ lastOp.op = "add_idle"
    /\ lastOp.late
    /\ lastOp.outcome = "panic"
    /\ \E w \in 1 .. Len(windows) : w \notin handles

UnimplementedOps ==
    { "close", "invalidate", "get_idle_handle", "get_dpi", "px_to_pixels",
      "px_to_pixels_xy", "pixels_to_px", "pixels_to_px_xy", "file_dialog",
      "add_idle", "request_quit" }

MenuOps == { "add_dropdown", "add_item", "add_separator" }

C8_OneConnection ==
    /\ openCalls <= 1
    /\ session = "uninit" => (openCalls = 0 /\ windows = <<>>)
    /\ \A i \in 1 .. Len(windows) : windows[i].valid => windows[i].conn = 1
    /\ builds = Cardinality({ i \in 1 .. Len(windows) : windows[i].valid })
    /\ ~alive => ~connOpen

\* C9: the event goes to the hit-tested node and then to each ancestor in
\* turn; no mouse is invoked after one returned true; the default mouse
\* returns false, so a node that keeps it passes the event on to its parent.
C9_BubblingStopsAtHandled ==
    /\ \A i \in 1 .. (Len(invoked) - 1) :
          /\ ~invoked[i].handled
          /\ invoked[i + 1].node \in ParentOf(invoked[i].node)
    /\ \A i \in 1 .. Len(invoked) :
          mouseKind[invoked[i].node] = "default" => ~invoked[i].handled
    /\ mphase = "handled" => (invoked # <<>> /\ invoked[Len(invoked)].handled)
    /\ mphase = "unhandled" =>
          (invoked # <<>> /\ ParentOf(invoked[Len(invoked)].node) = {})
    /\ mphase \in {"handled", "unhandled"} =>
          \A i \in 1 .. Len(invoked) :
              (mouseKind[invoked[i].node] = "default"
                 /\ ParentOf(invoked[i].node) # {}) => i < Len(invoked)

\* Depth 3, the middle node handles: the root's mouse is not invoked.
C9_Witness ==
    /\ nnodes = 3
    /\ children[0] = <<1>> /\ children[1] = <<2>>
    /\ mouseKind[2] = "default" /\ mouseKind[1] = "handles"
    /\ mphase = "handled"
    /\ Len(invoked) = 2
    /\ invoked[1].node = 2 /\ invoked[2].node = 1
    /\ \A i \in 1 .. Len(invoked) : invoked[i].node # 0

\* C10: the default Widget::layout on an empty child list panics, with or
\* without a known child size; it returns no LayoutResult and positions
\* nothing.
C10_EmptyChildrenPanics ==
    (lastCall.called /\ lastCall.ch = <<>>) =>
        /\ lastCall.out.tag = "Panic"
        /\ lastCall.out.positioned = {}
        /\ lastCall.out.child = None
        /\ lastCall.out.size = None

C10_Witness ==
    /\ lastCall.called
    /\ lastCall.ch = <<>>
    /\ lastCall.size # None
    /\ lastCall.out.tag = "Panic"

====
